---- MODULE Spec2Model ----
(***************************************************************************)
(* A model of DjangoProjects/imagerie/models.py: the CNN classifier        *)
(* lifecycle (train, split_images, save_model, classify), the relational   *)
(* store with its on_delete rules, the SubmittedImage.specie accessor and  *)
(* Taxon.clean_name.                                                       *)
(*                                                                         *)
(* Python's None is the empty sequence and a present value x is <<x>>, so  *)
(* that an optional field always has one type.                             *)
(***************************************************************************)
EXTENDS Integers, Sequences, FiniteSets, Bags, TLC

VARIABLES
    meta,       \* the classifier's architecture name and auto_now_add date
    cnn,        \* the in-memory CNN instance (fields and attributes)
    row,        \* the classifier's fields as stored in its database row
    fs,         \* the directories under MEDIA_ROOT/training_datas
    runs,       \* how many fits have completed (names the weights produced)
    compiled,   \* successful compiles made by classify on this instance
    loadCalls,  \* load_weights calls made by classify on this instance
    classes,    \* the Class rows: [pk, cnn, pos, specie], specie None or <<id>>
    classSeq,   \* the last primary key the Class table's sequence issued
    gtCount,    \* per species: its number of GroundTruthImage rows
    completed,  \* whether some train call has returned normally
    call,       \* the last method call: its inputs, outcome and return value
    taxa,       \* per taxon id: None, or the row <<[tax_id, sup_taxon]>>
    cnnRows,    \* the CNN rows (their ids)
    predictions,\* the Prediction rows: [pk, cnn, image, specie, confidence]
    predSeq,    \* the last primary key the Prediction table's sequence issued
    inflight,   \* the bag of Taxon.save calls waiting in requests.get:
                \* [t, sup_taxon] of each call's instance
    gtImage,    \* per GroundTruthImage id: None, or the row <<[specie]>>
    lastOp,     \* the last ORM operation on the store and how it ended
    aggResult,  \* the last read of SubmittedImage.specie
    name,       \* Taxon.name, a string as a sequence of characters
    rank,       \* the id of the Taxon's rank
    out         \* the results of clean_name: on name, then on its own result

storeVars == <<taxa, cnnRows, predictions, predSeq, inflight, gtImage, lastOp>>

aggVars == <<aggResult>>

nameVars == <<name, rank, out>>

vars == <<meta, cnn, row, fs, runs, compiled, loadCalls, classes, classSeq,
          gtCount, completed, call, taxa, cnnRows, predictions, predSeq,
          inflight, gtImage, lastOp,
          aggResult, name, rank, out>>

None == <<>>
Some(x) == <<x>>

\* Completed fits allowed per classifier.
MaxTrain == 2

\* Weights of a freshly compiled, unfitted network.
Untrained == 0

\* Values nn_model.evaluate may return for the accuracy, in thousandths.
Accuracies == {875}

\* Images per classify call.
MaxImages == 2

\* Creation dates the classifiers may carry (ImageClassifier.date).
Dates ==
    { [year |-> 2020, month |-> 3, day |-> 14, hour |-> 9, minute |-> 5],
      [year |-> 2020, month |-> 3, day |-> 14, hour |-> 10, minute |-> 40] }

ArchNames == {"googlenet"}

\* The weights directory of save_model: MEDIA_ROOT/training_datas/
\* {architecture.name}_{year}_{month}_{day}_{hour}; the minute is not part of it.
LearningDataPath(m) ==
    <<"training_datas", m.architecture, m.date.year, m.date.month, m.date.day,
      m.date.hour>>

Paths == { LearningDataPath([architecture |-> a, date |-> d]) :
             a \in ArchNames, d \in Dates }

NoDir == [exists |-> FALSE, saved |-> None]

\* A CNN instance as the class body declares it: available defaults to False,
\* learning_data is null, the model and the image sets are None.
NewCnn ==
    [ available |-> FALSE, learning_data |-> None, accuracy |-> 0,
      nn_model |-> None, train_images |-> None, train_labels |-> None,
      test_images |-> None, test_labels |-> None ]

NewRow == [available |-> FALSE, learning_data |-> None, accuracy |-> 0]

\* What a call leaves behind: the instance, the file system, how it ended
\* ("ok" or the exception), the external operations it invoked, its return value.
Result(self, files, outcome, did) ==
    [self |-> self, files |-> files, outcome |-> outcome, did |-> did,
     ret |-> None]

\* The steps of train, save_model and classify that call into Keras or the
\* file system, any of which may raise.
TrainSteps == {"compile", "fit", "evaluate", "mkdir", "save"}
SaveSteps == {"mkdir", "save"}
ClassifySteps == {"compile", "load_weights", "predict"}

\* CNNArchitecture.compile: a fresh network with the optimizer and loss attached.
ArchitectureCompile == Some(Untrained)

\* split_images: the default queryset is taken and a values/annotate queryset
\* is built and dropped; every other line of the body is commented out.  No
\* Class row is created and the image sets are not assigned.
SplitImages(self, classRows) ==
    [self |-> self, classes |-> classRows]

\* os.mkdir(self.learning_data): FileExistsError when the directory exists,
\* an OSError when the environment refuses, else an empty directory.
Mkdir(files, p, failAt) ==
    IF files[p].exists THEN [outcome |-> "FileExistsError", files |-> files]
    ELSE IF failAt = "mkdir" THEN [outcome |-> "OSError", files |-> files]
    ELSE [outcome |-> "ok",
          files |-> [files EXCEPT ![p] = [exists |-> TRUE, saved |-> None]]]

\* save_model: learning_data is assigned first, then the directory is made,
\* then the resident model is saved into it.
SaveModelCall(self, m, files, failAt) ==
    LET p  == LearningDataPath(m)
        s1 == [self EXCEPT !.learning_data = Some(p)]
        mk == Mkdir(files, p, failAt)
    IN  IF mk.outcome # "ok" THEN Result(s1, mk.files, mk.outcome, {"mkdir"})
        ELSE IF s1.nn_model = None
             THEN Result(s1, mk.files, "AttributeError", {"mkdir"})
        ELSE IF failAt = "save"
             THEN Result(s1, mk.files, "SaveError", {"mkdir", "save"})
        ELSE Result(s1, [mk.files EXCEPT ![p].saved = s1.nn_model], "ok",
                    {"mkdir", "save"})

\* Variant: available is set before save_model is called.
AvailableAfterTrain_Early(before, outcome) == TRUE

\* Variant: a failed save_model clears available.
AvailableAfterTrain_Reset(before, outcome) == outcome = "ok"

\* available after the save_model step of train: the assignment
\* self.available = True is reached only when save_model returned.
AvailableAfterTrain(before, outcome) ==
    IF outcome = "ok" THEN TRUE ELSE before

\* train: compile, split_images, fit, evaluate, save_model, available = True.
\* k names the weights this fit produces, acc is what evaluate returns.
TrainCall(self, m, files, classRows, k, failAt, acc) ==
    IF failAt = "compile" THEN Result(self, files, "CompileError", {"compile"})
    ELSE
    LET s1 == [self EXCEPT !.nn_model = ArchitectureCompile]
        s2 == SplitImages(s1, classRows).self
    IN  IF failAt = "fit"
        THEN Result(s2, files, "FitError", {"compile", "fit"})
        ELSE
        LET s3 == [s2 EXCEPT !.nn_model = Some(k)]
        IN  IF failAt = "evaluate"
            THEN Result(s3, files, "EvaluateError", {"compile", "fit", "evaluate"})
            ELSE
            LET s4 == [s3 EXCEPT !.accuracy = acc]
                sv == SaveModelCall(s4, m, files, failAt)
                s5 == [sv.self EXCEPT !.available = AvailableAfterTrain(sv.self.available, sv.outcome)]
            IN  Result(s5, sv.files, sv.outcome,
                       {"compile", "fit", "evaluate"} \cup sv.did)

\* nn_model.load_weights(self.learning_data): needs saved weights at the path.
LoadWeights(self, files, failAt) ==
    IF self.learning_data = None THEN None
    ELSE IF files[self.learning_data[1]].saved = None THEN None
    ELSE IF failAt = "load_weights" THEN None
    ELSE files[self.learning_data[1]].saved

\* Variant: the model is rebuilt on every call.
NeedsLoad_Always(self) == TRUE

\* The guard of classify: the model is built and loaded only when none is
\* resident.
NeedsLoad(self) == self.nn_model = None

\* Variant: the flag is looked at only when no model is resident.
NotAvailable_OnlyWhenNoModel(self) == ~self.available /\ self.nn_model = None

\* The first statement of classify.
NotAvailable(self) == ~self.available

\* predictions.argmax(): the index of the largest score of the whole batch,
\* flattened; classify computes it and drops it.
FlatArgmax(scores) ==
    LET n == Len(scores)
        w == Len(scores[1])
        at(i) == scores[((i - 1) \div w) + 1][((i - 1) % w) + 1]
    IN  CHOOSE i \in 1..(n * w) :
            /\ \A j \in 1..(n * w) : at(j) <= at(i)
            /\ \A j \in 1..(i - 1) : at(j) < at(i)

\* classify: refuse when not available, load lazily, predict; the function
\* has no return statement.
ClassifyCall(self, files, scores, failAt) ==
    IF NotAvailable(self) THEN Result(self, files, "Exception", {})
    ELSE
    LET lazy == NeedsLoad(self)
        failCompile == lazy /\ failAt = "compile"
        s1 == IF lazy /\ ~failCompile
              THEN [self EXCEPT !.nn_model = ArchitectureCompile] ELSE self
        w  == LoadWeights(s1, files, failAt)
        s2 == IF lazy /\ ~failCompile /\ w # None
              THEN [s1 EXCEPT !.nn_model = w] ELSE s1
        did1 == IF lazy THEN (IF failCompile THEN {"compile"}
                               ELSE {"compile", "load_weights"})
                ELSE {}
    IN  IF failCompile THEN Result(self, files, "CompileError", did1)
        ELSE IF lazy /\ w = None THEN Result(s1, files, "LoadError", did1)
        ELSE IF failAt = "predict"
             THEN Result(s2, files, "PredictError", did1 \cup {"predict"})
        ELSE LET discarded == FlatArgmax(scores)
             IN  Result(s2, files, "ok", did1 \cup {"predict"})

SpecieIds == {"s1", "s2"}

\* The minimum support of the commented-out body of split_images.
SupportThreshold == 10

\* Score rows Keras may return for one image, one score per class position.
ScoreRows == {<<1, 9>>, <<9, 1>>}

Batches == UNION { [1..n -> ScoreRows] : n \in 1..MaxImages }

NoCall == [op |-> "none", envOk |-> TRUE, outcome |-> "ok", did |-> {},
           ret |-> None, scores |-> <<>>]

Called(op, failAt, r, scores) ==
    [op |-> op, envOk |-> (failAt = "none"), outcome |-> r.outcome,
     did |-> r.did, ret |-> r.ret, scores |-> scores]

----------------------------------------------------------------------------
(* Taxon.clean_name.  A string is a sequence of one-character strings.     *)

\* Rank 8 is the rank clean_name treats as the species rank.
SpeciesRankId == 8
RankIds == {7, SpeciesRankId}

\* The longest Taxon.name tried.
MaxNameLen == 5

Whitespace == {" ", "\t"}
Chars == {"a", "b"} \cup Whitespace

Names == UNION { [1..n -> Chars] : n \in 0..MaxNameLen }

\* str.split(): the maximal runs of non-whitespace characters, in order.
RECURSIVE SplitFrom(_, _, _, _)
SplitFrom(str, i, cur, acc) ==
    IF i > Len(str) THEN (IF cur = <<>> THEN acc ELSE Append(acc, cur))
    ELSE IF str[i] \in Whitespace
         THEN SplitFrom(str, i + 1, <<>>,
                        IF cur = <<>> THEN acc ELSE Append(acc, cur))
         ELSE SplitFrom(str, i + 1, Append(cur, str[i]), acc)

Split(str) == SplitFrom(str, 1, <<>>, <<>>)

\* ' '.join(tokens)
RECURSIVE JoinSpace(_)
JoinSpace(tokens) ==
    IF tokens = <<>> THEN <<>>
    ELSE IF Len(tokens) = 1 THEN tokens[1]
    ELSE tokens[1] \o <<" ">> \o JoinSpace(Tail(tokens))

\* Variant: tokens[:3]
FirstThree(tokens) ==
    SubSeq(tokens, 1, IF Len(tokens) < 3 THEN Len(tokens) ELSE 3)

\* tokens[:2]
FirstTwo(tokens) ==
    SubSeq(tokens, 1, IF Len(tokens) < 2 THEN Len(tokens) ELSE 2)

\* clean_name: split()[0] unless the rank's id is 8 (an IndexError when the
\* name has no token), else ' '.join(split()[:2]).
CleanName(nm, rk) ==
    IF rk # SpeciesRankId
    THEN IF Split(nm) = <<>>
         THEN [outcome |-> "IndexError", value |-> <<>>]
         ELSE [outcome |-> "ok", value |-> Split(nm)[1]]
    ELSE [outcome |-> "ok", value |-> JoinSpace(FirstTwo(Split(nm)))]

----------------------------------------------------------------------------
(* The relational store: Taxon, Specie, CNN, Class, Prediction and         *)
(* GroundTruthImage rows, Taxon.save, and what deleting a row does to the  *)
(* rows that reference it (the on_delete of each ForeignKey).              *)

\* 's1' and 's2' are Specie rows (a Taxon row with its Specie row; deleting
\* either deletes both).
TaxonIds == {"s1", "s2"}
StoreSpecies == {"s1", "s2"}

\* The taxa a caller files a taxon under: 's2' under 's1', or under none.
SupChoices(t) == IF t = "s2" THEN {"s1"} ELSE {}
StoreCnns == {"c1", "c2"}
GtIds == {"g1"}
ImageIds == {"i1", "i2"}

\* Class and Prediction rows ever inserted into the store, together.
MaxStoreRows == 1

\* Confidences a Prediction may carry, in thousandths.
Confidences == {300, 500, 600}

\* The (pos, specie) pairs a caller passes to Class: pos is any integer and
\* specie may be null.
ClassInputs == {<<1, Some("s2")>>, <<7, None>>}

\* Taxonomy ids: what a caller sets, and what the NCBI search finds.
TaxIds == {9689}

\* Names a caller gives a Taxon: the empty name and 'a b a'.
TaxonNames == {<<>>, <<"a", " ", "b", " ", "a">>}

\* The request handlers that may be inside Taxon.save at the same time.
Handlers == {"A", "B"}

\* What the esearch request does: no connection, a body that is not XML, XML
\* without a Count element, a Count of 0, or a Count above 0 with an Id.
Answers == {"unreachable", "not_xml", "no_count", "count_0", "found"}

\* get_id_from_name once requests.get has returned or raised:
\* ElementTree.fromstring, root.find('Count'); the Id when Count > 0, and no
\* return statement (None) otherwise.
GetIdFromName(answer) ==
    CASE answer = "unreachable" -> [outcome |-> "ConnectionError", value |-> None]
      [] answer = "not_xml"     -> [outcome |-> "ParseError", value |-> None]
      [] answer = "no_count"    -> [outcome |-> "AttributeError", value |-> None]
      [] answer = "count_0"     -> [outcome |-> "ok", value |-> None]
      [] OTHER                  -> [outcome |-> "ok",
                                    value |-> Some(CHOOSE i \in TaxIds : TRUE)]

\* Model.save of a Taxon instance whose key is t: the row of that key is
\* updated, or inserted when there is none; the database refuses a sup_taxon
\* that names no row.
ModelSave(tx, t, tr) ==
    IF tr.sup_taxon # None /\ tx[tr.sup_taxon[1]] = None
    THEN [outcome |-> "IntegrityError", taxa |-> tx]
    ELSE [outcome |-> "ok", taxa |-> [tx EXCEPT ![t] = Some(tr)]]

\* The fields of the written Taxon row that the store follows.
TaxonRow(inst) ==
    [tax_id |-> inst.tax_id, sup_taxon |-> inst.sup_taxon]

\* Taxon.sup_taxon, on_delete=SET_NULL.
TaxaAfterTaxonDelete(tx, t) ==
    [u \in TaxonIds |->
        IF u = t \/ tx[u] = None THEN None
        ELSE IF tx[u][1].sup_taxon = Some(t)
             THEN Some([tx[u][1] EXCEPT !.sup_taxon = None])
             ELSE tx[u]]

\* Variant: Class rows outlive their specie.
ClassesAfterSpecieDelete_Kept(rows, t) == rows

\* Class.specie, on_delete=CASCADE.
ClassesAfterSpecieDelete(rows, t) == {r \in rows : r.specie # Some(t)}

\* Prediction.specie, on_delete=CASCADE.
PredictionsAfterSpecieDelete(rows, t) == {r \in rows : r.specie # t}

\* GroundTruthImage.specie, on_delete=SET_NULL.
GtAfterSpecieDelete(g, t) ==
    [i \in GtIds |->
        IF g[i] # None /\ g[i][1].specie = Some(t)
        THEN Some([g[i][1] EXCEPT !.specie = None]) ELSE g[i]]

\* Class.cnn, on_delete=CASCADE.
ClassesAfterCnnDelete(rows, c) == {r \in rows : r.cnn # c}

\* Prediction.cnn, on_delete=CASCADE.
PredictionsAfterCnnDelete(rows, c) == {r \in rows : r.cnn # c}

\* The primary key an insert gets: the one after the last the table's
\* sequence issued, whether or not that row still exists.
NextPk(seq) == seq + 1

NoOp == [op |-> "none", target |-> "", outcome |-> "ok"]

\* What lastOp holds after an insert or an update that went through.
Created == [op |-> "save", target |-> "", outcome |-> "ok"]

\* What lastOp holds after a step of Taxon.save: "waiting" while the call is
\* in requests.get, else how the call ended.
Saved(outcome) == [op |-> "save", target |-> "", outcome |-> outcome]

StoreIdle ==
    /\ taxa = [t \in TaxonIds |-> None]
    /\ cnnRows = {}
    /\ predictions = {}
    /\ predSeq = 0
    /\ inflight = EmptyBag
    /\ gtImage = [i \in GtIds |-> None]
    /\ lastOp = NoOp

LifeIdle ==
    /\ meta = [architecture |-> "googlenet",
               date |-> CHOOSE d \in Dates : d.hour = 9]
    /\ cnn = NewCnn /\ row = NewRow /\ fs = [p \in Paths |-> NoDir]
    /\ runs = 0 /\ compiled = 0 /\ loadCalls = 0
    /\ gtCount = [s \in SpecieIds |-> 0]
    /\ completed = FALSE /\ call = NoCall

\* The ORM operations leave the classifier instance and the inputs alone.
StoreFrame ==
    UNCHANGED <<meta, cnn, row, fs, runs, compiled, loadCalls, gtCount,
                completed, call, aggVars, nameVars>>

\* Taxon.save of the instance of key t, up to its first wait.  With a tax_id
\* it goes straight to Model.save.  Without one it evaluates clean_name, which
\* may raise, and sends the search request: the call then waits in
\* requests.get while other handlers run.
SaveTaxonInstance(t, inst) ==
    LET cn == CleanName(inst.name, inst.rank)
        w == ModelSave(taxa, t, TaxonRow(inst))
        k == [t |-> t, sup_taxon |-> inst.sup_taxon]
    IN  /\ inst.sup_taxon # None => taxa[inst.sup_taxon[1]] # None
        /\ IF inst.tax_id # None
           THEN taxa' = w.taxa /\ lastOp' = Saved(w.outcome)
                    /\ UNCHANGED inflight
           ELSE IF cn.outcome # "ok"
           THEN lastOp' = Saved(cn.outcome) /\ UNCHANGED <<taxa, inflight>>
           ELSE BagCardinality(inflight) < Cardinality(Handlers)
                    /\ inflight' = inflight (+) SetToBag({k})
                    /\ lastOp' = Saved("waiting") /\ UNCHANGED taxa
        /\ UNCHANGED <<cnnRows, classes, classSeq, predictions, predSeq, gtImage>>
        /\ StoreFrame

\* A waiting Taxon.save goes on when requests.get returns or raises:
\* get_id_from_name sets tax_id or raises, then Model.save writes the
\* instance as it was when the call began, against the rows as they are now.
ResumeSave(k, answer) ==
    LET r == GetIdFromName(answer)
        w == ModelSave(taxa, k.t, [tax_id |-> r.value, sup_taxon |-> k.sup_taxon])
    IN  /\ BagIn(k, inflight)
        /\ inflight' = inflight (-) SetToBag({k})
        /\ IF r.outcome # "ok"
           THEN lastOp' = Saved(r.outcome) /\ UNCHANGED taxa
           ELSE taxa' = w.taxa /\ lastOp' = Saved(w.outcome)
        /\ UNCHANGED <<cnnRows, classes, classSeq, predictions, predSeq, gtImage>>
        /\ StoreFrame

\* The instances save() is called on: a named species with no id, a nameless
\* taxon of another rank with no id, and a taxon whose id the caller set.
SaveCases ==
    { [name |-> <<"a", " ", "b", " ", "a">>, rank |-> SpeciesRankId,
       tax_id |-> None] }
    \cup { [name |-> <<>>, rank |-> 7, tax_id |-> g] :
             g \in {None} \cup {Some(i) : i \in TaxIds} }

\* Taxon(...).save() / Specie(...).save() of a new instance; t is the key its
\* insert will get, which no other instance has.
CreateTaxon(t) ==
    \E k \in SaveCases, sup \in {None} \cup {Some(u) : u \in SupChoices(t)} :
        /\ taxa[t] = None
        /\ \A w \in BagToSet(inflight) : w.t # t
        /\ SaveTaxonInstance(t, [tax_id |-> k.tax_id, name |-> k.name,
                                 sup_taxon |-> sup, rank |-> k.rank])

\* save() of a fetched Taxon after the caller set tax_id, name, sup_taxon or
\* rank.
UpdateTaxon(t) ==
    \E k \in SaveCases, sup \in {None} \cup {Some(u) : u \in SupChoices(t)} :
        /\ taxa[t] # None
        /\ SaveTaxonInstance(t, [tax_id |-> k.tax_id, name |-> k.name,
                                 sup_taxon |-> sup, rank |-> k.rank])

CreateCnn(c) ==
    /\ c \notin cnnRows
    /\ cnnRows' = cnnRows \cup {c}
    /\ lastOp' = Created
    /\ UNCHANGED <<taxa, classes, classSeq, predictions, predSeq, gtImage, inflight>>
    /\ StoreFrame

\* Class.objects.create(pos=, cnn=, specie=): pos is the caller's, specie may
\* be null, and no pair of fields is unique.
CreateClass(c, pos, sp) ==
    /\ classSeq + predSeq < MaxStoreRows
    /\ c \in cnnRows
    /\ sp # None => taxa[sp[1]] # None
    /\ classes' = classes \cup
          {[pk |-> NextPk(classSeq), cnn |-> c, pos |-> pos, specie |-> sp]}
    /\ classSeq' = NextPk(classSeq)
    /\ lastOp' = Created
    /\ UNCHANGED <<taxa, cnnRows, predictions, predSeq, gtImage, inflight>>
    /\ StoreFrame

CreatePrediction(c, i, s, conf) ==
    /\ c \in cnnRows /\ taxa[s] # None
    /\ predictions' = predictions \cup
          {[pk |-> NextPk(predSeq), cnn |-> c, image |-> i, specie |-> s,
            confidence |-> conf]}
    /\ predSeq' = NextPk(predSeq)
    /\ UNCHANGED <<taxa, cnnRows, classes, classSeq, gtImage, inflight>>

\* Prediction.objects.create for an image of the store.
StorePrediction(c, s) ==
    /\ classSeq + predSeq < MaxStoreRows
    /\ CreatePrediction(c, "i1", s, 500)
    /\ lastOp' = Created
    /\ StoreFrame

CreateGroundTruth(g) ==
    \E sp \in {None, Some("s1")} :
        /\ gtImage[g] = None
        /\ sp # None => taxa[sp[1]] # None
        /\ gtImage' = [gtImage EXCEPT ![g] = Some([specie |-> sp])]
        /\ lastOp' = Created
        /\ UNCHANGED <<taxa, cnnRows, classes, classSeq, predictions, predSeq, inflight>>
        /\ StoreFrame

\* Taxon.delete() / Specie.delete().
DeleteTaxon(t) ==
    /\ taxa[t] # None
    /\ taxa' = TaxaAfterTaxonDelete(taxa, t)
    /\ classes' = ClassesAfterSpecieDelete(classes, t)
    /\ predictions' = PredictionsAfterSpecieDelete(predictions, t)
    /\ gtImage' = GtAfterSpecieDelete(gtImage, t)
    /\ lastOp' = [op |-> "delete_taxon", target |-> t, outcome |-> "ok"]
    /\ UNCHANGED <<cnnRows, classSeq, predSeq, inflight>>
    /\ StoreFrame

\* CNN.delete().
DeleteCnn(c) ==
    /\ c \in cnnRows
    /\ cnnRows' = cnnRows \ {c}
    /\ classes' = ClassesAfterCnnDelete(classes, c)
    /\ predictions' = PredictionsAfterCnnDelete(predictions, c)
    /\ lastOp' = [op |-> "delete_cnn", target |-> c, outcome |-> "ok"]
    /\ UNCHANGED <<taxa, gtImage, classSeq, predSeq, inflight>>
    /\ StoreFrame

StoreNext ==
    \/ \E t \in TaxonIds : CreateTaxon(t)
    \/ \E t \in TaxonIds : UpdateTaxon(t)
    \/ \E k \in BagToSet(inflight), answer \in Answers : ResumeSave(k, answer)
    \/ \E c \in StoreCnns : CreateCnn(c)
    \/ \E c \in StoreCnns, in \in ClassInputs : CreateClass(c, in[1], in[2])
    \/ \E c \in StoreCnns, s \in StoreSpecies : StorePrediction(c, s)
    \/ \E g \in GtIds : CreateGroundTruth(g)
    \/ \E t \in TaxonIds : DeleteTaxon(t)
    \/ \E c \in StoreCnns : DeleteCnn(c)

----------------------------------------------------------------------------
(* SubmittedImage.specie:                                                  *)
(*   prediction_set.values('specie').annotate(tot_conf=Sum(..)).first()    *)

\* Prediction rows ever inserted into the aggregator's store.
MaxPredictions == 3

RECURSIVE SumConfidence(_)
SumConfidence(rows) ==
    IF rows = {} THEN 0
    ELSE LET r == CHOOSE x \in rows : TRUE
         IN  r.confidence + SumConfidence(rows \ {r})

\* self.prediction_set: the Prediction rows of the image.
PredictionSet(rows, img) == {r \in rows : r.image = img}

\* The queryset has no ordering, so first() orders it by pk, and the pk then
\* joins specie in the GROUP BY: a group is one row.  first() yields the
\* group of the smallest pk as a dict, or None when there is no row.
FirstOfUnordered(rows) ==
    IF rows = {} THEN None
    ELSE LET r == CHOOSE x \in rows : \A q \in rows : x.pk <= q.pk
         IN  Some([specie |-> r.specie,
                   tot_conf |-> SumConfidence({q \in rows :
                                    q.specie = r.specie /\ q.pk = r.pk})])

\* What first() does with an unordered aggregation depends on the Django the
\* code runs on: it orders by pk (up to 4.1), or refuses with a TypeError.
OrmBehaviours == {"order_by_pk", "refuses"}

SpecieAccessor(rows, img, orm) ==
    IF orm = "refuses"
    THEN [op |-> "specie", image |-> img, outcome |-> "TypeError", value |-> None]
    ELSE [op |-> "specie", image |-> img, outcome |-> "ok",
          value |-> FirstOfUnordered(PredictionSet(rows, img))]

NameIdle == name = <<>> /\ rank = SpeciesRankId /\ out = <<>>

AggIdle == aggResult = [op |-> "none", image |-> "i1", outcome |-> "ok", value |-> None]

\* A store with one classifier and two species, and no prediction yet.
AggInit ==
    /\ taxa = [t \in TaxonIds |->
                Some([tax_id |-> None, sup_taxon |-> None])]
    /\ cnnRows = {"c1"}
    /\ classes = {} /\ classSeq = 0
    /\ predictions = {} /\ predSeq = 0
    /\ inflight = EmptyBag
    /\ gtImage = [i \in GtIds |-> None]
    /\ lastOp = NoOp
    /\ LifeIdle /\ AggIdle /\ NameIdle

\* Prediction.objects.create for a submitted image.
AddPrediction(i, s, conf) ==
    /\ predSeq < MaxPredictions
    /\ CreatePrediction("c1", i, s, conf)
    /\ lastOp' = Created
    /\ UNCHANGED aggVars
    /\ StoreFrame

\* Reading image.specie.
ReadSpecie(i) ==
    \E orm \in OrmBehaviours :
        /\ aggResult' = SpecieAccessor(predictions, i, orm)
        /\ UNCHANGED <<storeVars, classes, classSeq, nameVars>>
        /\ UNCHANGED <<meta, cnn, row, fs, runs, compiled, loadCalls, gtCount,
                       completed, call>>

AggNext ==
    \/ \E i \in ImageIds, s \in StoreSpecies, conf \in Confidences :
          AddPrediction(i, s, conf)
    \/ \E i \in ImageIds : ReadSpecie(i)

AggSpec == AggInit /\ [][AggNext]_vars

----------------------------------------------------------------------------
\* A Taxon with any name and either rank.
NameInit ==
    /\ name \in Names
    /\ rank \in RankIds
    /\ out = <<>>
    /\ StoreIdle /\ classes = {} /\ classSeq = 0 /\ LifeIdle /\ AggIdle

NameFrame ==
    UNCHANGED <<meta, cnn, row, fs, runs, compiled, loadCalls, gtCount,
                completed, call, classes, classSeq, storeVars, aggVars>>

\* Reading taxon.clean_name.
ReadCleanName ==
    /\ out = <<>>
    /\ out' = <<CleanName(name, rank)>>
    /\ UNCHANGED <<name, rank>>
    /\ NameFrame

\* Reading clean_name of a Taxon of the same rank named by the first result.
ReadCleanNameAgain ==
    /\ Len(out) = 1 /\ out[1].outcome = "ok"
    /\ out' = Append(out, CleanName(out[1].value, rank))
    /\ UNCHANGED <<name, rank>>
    /\ NameFrame

NameNext == ReadCleanName \/ ReadCleanNameAgain

NameSpec == NameInit /\ [][NameNext]_vars

----------------------------------------------------------------------------
\* A newly created classifier.  One species has one ground-truth image more
\* than the support threshold and the other exactly the threshold; the
\* classifier has two Class rows entered through the ORM.
LifeInit ==
    /\ meta \in [architecture : ArchNames, date : Dates]
    /\ cnn = NewCnn
    /\ row = NewRow
    /\ fs = [p \in Paths |-> NoDir]
    /\ runs = 0
    /\ compiled = 0
    /\ loadCalls = 0
    /\ classes = { [pk |-> 1, cnn |-> "c1", pos |-> 1, specie |-> Some("s2")],
                   [pk |-> 2, cnn |-> "c1", pos |-> 2, specie |-> Some("s1")] }
    /\ classSeq = 2
    /\ gtCount = [s \in SpecieIds |->
                    IF s = "s1" THEN SupportThreshold + 1 ELSE SupportThreshold]
    /\ completed = FALSE
    /\ call = NoCall
    /\ StoreIdle /\ AggIdle /\ NameIdle

\* The lifecycle methods leave the other tables and inputs alone.
LifeFrame == UNCHANGED <<storeVars, classSeq, aggVars, nameVars>>

Train ==
    \E failAt \in TrainSteps \cup {"none"}, acc \in Accuracies :
        LET r == TrainCall(cnn, meta, fs, classes, runs + 1, failAt, acc)
        IN  /\ runs < MaxTrain
            /\ cnn' = r.self
            /\ fs' = r.files
            /\ runs' = IF r.self.nn_model = Some(runs + 1) THEN runs + 1 ELSE runs
            /\ classes' = IF "fit" \in r.did
                          THEN SplitImages(cnn, classes).classes ELSE classes
            /\ completed' = (completed \/ r.outcome = "ok")
            /\ call' = Called("train", failAt, r, <<>>)
            /\ UNCHANGED <<meta, row, compiled, loadCalls, gtCount>>
            /\ LifeFrame

SplitImagesOnly ==
    LET r == SplitImages(cnn, classes)
    IN  /\ cnn' = r.self
        /\ classes' = r.classes
        /\ call' = Called("split_images", "none", Result(r.self, fs, "ok", {}), <<>>)
        /\ UNCHANGED <<meta, row, fs, runs, compiled, loadCalls, gtCount, completed>>
        /\ LifeFrame

SaveModel ==
    \E failAt \in SaveSteps \cup {"none"} :
        LET r == SaveModelCall(cnn, meta, fs, failAt)
        IN  /\ cnn' = r.self
            /\ fs' = r.files
            /\ call' = Called("save_model", failAt, r, <<>>)
            /\ UNCHANGED <<meta, row, runs, compiled, loadCalls, classes, gtCount, completed>>
            /\ LifeFrame

Classify ==
    \E failAt \in ClassifySteps \cup {"none"}, scores \in Batches :
        LET r == ClassifyCall(cnn, fs, scores, failAt)
        IN  /\ cnn' = r.self
            /\ fs' = r.files
            /\ compiled' = IF "compile" \in r.did /\ r.outcome # "CompileError"
                           THEN compiled + 1 ELSE compiled
            /\ loadCalls' = IF "load_weights" \in r.did
                            THEN loadCalls + 1 ELSE loadCalls
            /\ call' = Called("classify", failAt, r, scores)
            /\ UNCHANGED <<meta, row, runs, classes, gtCount, completed>>
            /\ LifeFrame

\* Model.save(): the fields of the instance are written to its row.
Save ==
    /\ row' = [available |-> cnn.available,
               learning_data |-> cnn.learning_data,
               accuracy |-> cnn.accuracy]
    /\ call' = Called("save", "none", Result(cnn, fs, "ok", {}), <<>>)
    /\ UNCHANGED <<meta, cnn, fs, runs, compiled, loadCalls, classes, gtCount, completed>>
    /\ LifeFrame

\* CNN.objects.get(): a new instance from the row; nn_model and the image
\* sets are class attributes and start as None again.
Fetch ==
    LET fresh == [NewCnn EXCEPT !.available = row.available,
                                !.learning_data = row.learning_data,
                                !.accuracy = row.accuracy]
    IN  /\ cnn' = fresh
        /\ compiled' = 0
        /\ loadCalls' = 0
        /\ call' = Called("fetch", "none", Result(fresh, fs, "ok", {}), <<>>)
        /\ UNCHANGED <<meta, row, fs, runs, classes, gtCount, completed>>
        /\ LifeFrame

LifeNext ==
    \/ Train
    \/ SplitImagesOnly
    \/ SaveModel
    \/ Classify
    \/ Save
    \/ Fetch

Spec == LifeInit /\ [][LifeNext]_vars

\* An empty store.
StoreInit ==
    /\ StoreIdle
    /\ classes = {} /\ classSeq = 0
    /\ LifeIdle /\ AggIdle /\ NameIdle

StoreSpec == StoreInit /\ [][StoreNext]_vars

----------------------------------------------------------------------------
\* The classifier's weights directory.
Here == LearningDataPath(meta)

\* C1: classify on a classifier whose available flag is false always raises
\* and returns nothing, whatever nn_model and learning_data are, and it
\* raises before any compile, weight load or prediction: the instance and
\* the file system are as before the call.
C1_ClassifyRefusesUnavailable ==
    [][ (call'.op = "classify" /\ ~cnn.available) =>
            /\ call'.outcome = "Exception"
            /\ call'.ret = None
            /\ call'.did = {}
            /\ cnn' = cnn
            /\ fs' = fs ]_vars

\* A refused classify on an instance that holds a model and a weights path.
C1_Witness ==
    /\ call.op = "classify" /\ call.outcome = "Exception"
    /\ ~cnn.available
    /\ cnn.nn_model # None /\ cnn.learning_data # None

\* C2: available is true (on the instance or in the row) only if a train call
\* has run to completion, and then learning_data is set and weights are
\* stored at that path.
C2_AvailableOnlyAfterTrain ==
    /\ cnn.available =>
          /\ completed
          /\ cnn.learning_data # None
          /\ fs[cnn.learning_data[1]].saved # None
    /\ row.available =>
          /\ completed
          /\ row.learning_data # None
          /\ fs[row.learning_data[1]].saved # None

\* A train call has just completed and promoted the classifier.
C2_Witness ==
    /\ call.op = "train" /\ call.outcome = "ok"
    /\ cnn.available /\ fs[Here].saved = cnn.nn_model

\* C3: a train call that raises at any step leaves available as it was.
C3_FailedTrainKeepsAvailable ==
    [][ (call'.op = "train" /\ call'.outcome # "ok") =>
            cnn'.available = cnn.available ]_vars

\* A train call failed inside save_model on a classifier that was available.
C3_Witness ==
    /\ call.op = "train" /\ call.outcome = "FileExistsError"
    /\ cnn.available

\* C4: train on a classifier already trained and persisted completes, leaves
\* the weights of this training at the classifier's path, and available true.
C4_RetrainOverwrites ==
    [][ (call'.op = "train" /\ call'.envOk /\ cnn.available
            /\ fs[Here].saved # None) =>
            /\ call'.outcome = "ok"
            /\ fs'[Here].saved = Some(runs')
            /\ cnn'.available ]_vars

\* The class index of the largest score of one image.
RowArgmax(scoreRow) ==
    CHOOSE i \in 1..Len(scoreRow) :
        /\ \A j \in 1..Len(scoreRow) : scoreRow[j] <= scoreRow[i]
        /\ \A j \in 1..(i - 1) : scoreRow[j] < scoreRow[i]

SpecieAtPos(pos) ==
    (CHOOSE r \in classes : r.cnn = "c1" /\ r.pos = pos).specie[1]

\* C6: classify on an available classifier returns one species per image,
\* the one its Class rows give for the class index of the image's top score.
C6_ClassifyReturnsSpecies ==
    (call.op = "classify" /\ call.outcome = "ok") =>
        call.ret = Some([i \in 1..Len(call.scores) |->
                            SpecieAtPos(RowArgmax(call.scores[i]))])

\* C8: split_images gives a Class row to exactly the species with more than
\* SupportThreshold ground-truth images, and assigns the image sets.
C8_SplitAdmitsAboveThreshold ==
    [][ call'.op = "split_images" =>
            /\ \A s \in SpecieIds :
                 (gtCount[s] > SupportThreshold) <=>
                     (\E r \in classes' \ classes : r.specie = Some(s))
            /\ cnn'.train_images # None
            /\ cnn'.test_images # None ]_vars

\* C10: classify compiles and loads weights only when no model is resident,
\* so at most once per instance; with a model resident it does neither and
\* leaves nn_model as it is.
C10_LazyLoad ==
    [][ call'.op = "classify" =>
            /\ compiled' <= 1
            /\ loadCalls' <= 1
            /\ ("compile" \in call'.did \/ "load_weights" \in call'.did)
                  => cnn.nn_model = None
            /\ cnn.nn_model # None => cnn'.nn_model = cnn.nn_model ]_vars

\* A classify that found the model loaded by an earlier classify and only
\* predicted.
C10_Witness ==
    /\ call.op = "classify" /\ call.outcome = "ok"
    /\ call.did = {"predict"}
    /\ compiled = 1 /\ loadCalls = 1

----------------------------------------------------------------------------
\* A row references taxon t: a Class, Prediction or GroundTruthImage row by
\* its specie, or another Taxon by its sup_taxon.
Referenced(t) ==
    \/ \E r \in classes : r.specie = Some(t)
    \/ \E r \in predictions : r.specie = t
    \/ \E g \in GtIds : gtImage[g] # None /\ gtImage[g][1].specie = Some(t)
    \/ \E u \in TaxonIds : taxa[u] # None /\ taxa[u][1].sup_taxon = Some(t)

\* No row references a Taxon, Specie or CNN that does not exist.
NoDanglingReference ==
    /\ \A r \in classes :
          /\ r.specie # None => taxa[r.specie[1]] # None
          /\ r.cnn \in cnnRows
    /\ \A r \in predictions : taxa[r.specie] # None /\ r.cnn \in cnnRows
    /\ \A g \in GtIds :
          (gtImage[g] # None /\ gtImage[g][1].specie # None)
              => taxa[gtImage[g][1].specie[1]] # None
    /\ \A u \in TaxonIds :
          (taxa[u] # None /\ taxa[u][1].sup_taxon # None)
              => taxa[taxa[u][1].sup_taxon[1]] # None

\* C9 as stated: deleting a Specie or Taxon that is still referenced is
\* refused and leaves every row as it was.
C9_DeleteRefusedWhileReferenced ==
    [][ \A t \in TaxonIds :
          (lastOp'.op = "delete_taxon" /\ lastOp'.target = t /\ Referenced(t)) =>
              /\ lastOp'.outcome = "ProtectedError"
              /\ UNCHANGED <<taxa, classes, predictions, gtImage>> ]_vars

\* C9 as the code has it: deleting a Specie or Taxon is never refused; it
\* deletes the Class and Prediction rows of that specie and no others, sets
\* specie to null on its GroundTruthImage rows and sup_taxon to null on the
\* taxa below it.  Deleting a CNN removes exactly its Class and Prediction
\* rows.  No row is left referencing a deleted Taxon, Specie or CNN.
C9_DeleteCascadesOrNulls ==
    /\ [](\A t \in TaxonIds : taxa[t] # None => ENABLED DeleteTaxon(t))
    /\ [][
        /\ \A t \in TaxonIds :
            lastOp' = [op |-> "delete_taxon", target |-> t, outcome |-> "ok"] =>
                /\ taxa'[t] = None
                /\ classes' = {r \in classes : r.specie # Some(t)}
                /\ predictions' = {r \in predictions : r.specie # t}
                /\ \A g \in GtIds :
                      gtImage'[g] = IF gtImage[g] = Some([specie |-> Some(t)])
                                    THEN Some([specie |-> None]) ELSE gtImage[g]
                /\ \A u \in TaxonIds \ {t} :
                      /\ (taxa'[u] = None) <=> (taxa[u] = None)
                      /\ (taxa[u] # None /\ taxa[u][1].sup_taxon = Some(t))
                            => taxa'[u][1].sup_taxon = None
        /\ \A c \in StoreCnns :
            lastOp' = [op |-> "delete_cnn", target |-> c, outcome |-> "ok"] =>
                /\ classes' = {r \in classes : r.cnn # c}
                /\ predictions' = {r \in predictions : r.cnn # c}
                /\ UNCHANGED <<taxa, gtImage>>
        /\ lastOp'.op \in {"delete_taxon", "delete_cnn"} => lastOp'.outcome = "ok"
        /\ NoDanglingReference' ]_vars

\* Specie 's1' was deleted: its ground-truth image now has no specie, the
\* one Prediction row ever inserted is gone, and 's2' is still there, filed
\* under no taxon.
C9_Witness ==
    /\ lastOp = [op |-> "delete_taxon", target |-> "s1", outcome |-> "ok"]
    /\ taxa["s1"] = None
    /\ gtImage["g1"] = Some([specie |-> None])
    /\ predSeq = 1 /\ predictions = {}
    /\ taxa["s2"] # None /\ taxa["s2"][1].sup_taxon = None

----------------------------------------------------------------------------
\* The species of the largest summed confidence among the image's rows.
TopSpecies(rows) ==
    { s \in StoreSpecies :
        /\ \E r \in rows : r.specie = s
        /\ \A u \in StoreSpecies :
              SumConfidence({r \in rows : r.specie = u})
                  <= SumConfidence({r \in rows : r.specie = s}) }

\* C5: when the accessor returns, it returns the species whose confidences
\* summed over the image's predictions is largest, with that sum, and none
\* when the image has no prediction.
C5_SpecieIsMaxSummed ==
    [][ (aggResult'.op = "specie" /\ aggResult'.outcome = "ok") =>
          LET rows == PredictionSet(predictions, aggResult'.image)
          IN  IF rows = {} THEN aggResult'.value = None
              ELSE /\ aggResult'.value # None
                   /\ aggResult'.value[1].specie \in TopSpecies(rows) ]_vars

\* The maximal runs of non-whitespace characters of a string, as <<first,
\* last>> index pairs.
TokenSpans(str) ==
    { sp \in (1..Len(str)) \X (1..Len(str)) :
        /\ sp[1] <= sp[2]
        /\ \A k \in sp[1]..sp[2] : str[k] \notin Whitespace
        /\ sp[1] = 1 \/ str[sp[1] - 1] \in Whitespace
        /\ sp[2] = Len(str) \/ str[sp[2] + 1] \in Whitespace }

FirstSpan(spans) == CHOOSE sp \in spans : \A q \in spans : sp[1] <= q[1]

\* The first two tokens of a string joined by one space (the tokens there
\* are, when fewer than two).
TwoTokens(str) ==
    LET spans == TokenSpans(str)
    IN  IF spans = {} THEN <<>>
        ELSE LET f == FirstSpan(spans)
                 rest == spans \ {f}
             IN  IF rest = {} THEN SubSeq(str, f[1], f[2])
                 ELSE LET g == FirstSpan(rest)
                      IN  SubSeq(str, f[1], f[2]) \o <<" ">>
                              \o SubSeq(str, g[1], g[2])

\* C7: clean_name is the first two whitespace-separated tokens joined by one
\* space for the species rank, and the first token for any other rank (for
\* which a name without a token raises IndexError); clean_name of the result
\* is the result.
C7_CleanName ==
    /\ Len(out) >= 1 =>
          IF rank = SpeciesRankId
          THEN out[1] = [outcome |-> "ok", value |-> TwoTokens(name)]
          ELSE IF TokenSpans(name) = {}
               THEN out[1].outcome = "IndexError"
               ELSE LET f == FirstSpan(TokenSpans(name))
                    IN  out[1] = [outcome |-> "ok",
                                  value |-> SubSeq(name, f[1], f[2])]
    /\ Len(out) = 2 => out[2] = out[1]

\* clean_name was read twice for a species-rank name of three tokens with a
\* tab among its separators.
C7_Witness ==
    /\ Len(out) = 2
    /\ rank = SpeciesRankId
    /\ Cardinality(TokenSpans(name)) = 3
    /\ \E k \in 1..Len(name) : name[k] = "\t"
    /\ Len(out[1].value) = 3

====
